---- MODULE Spec2Model ----
\* Model of the Tacticus code bot (bot.py): one run of main() loads the
\* known-codes file, polls Discord and two subreddit feeds, and for every new
\* code sends a Telegram message, adds the code to the in-memory set and
\* appends it to the file.  Text is a sequence of one-character strings.
EXTENDS Integers, Sequences, FiniteSets, Bags, TLC

\* ---------------------------------------------------------------- bounds
MaxRuns == 2
MaxMsgs == 2
MaxFaults == 1
MaxTextLen == 5
MaxOver == 2

\* ------------------------------------------------------ program constants
MinCodeLen == 4
MaxCodeLen == 20
LookbackDays == 3
DiscordLimit == 10

\* --------------------------------------------------------- character sets
Upper ==
    { "A","B","C","D","E","F","G","H","I","J","K","L","M",
      "N","O","P","Q","R","S","T","U","V","W","X","Y","Z" }
Lower ==
    { "a","b","c","d","e","f","g","h","i","j","k","l","m",
      "n","o","p","q","r","s","t","u","v","w","x","y","z" }
Digit ==
    { "0","1","2","3","4","5","6","7","8","9" }
\* [A-Z0-9]
CodeChar ==
    Upper \cup Digit
\* \w of the re module
WordChar ==
    Upper \cup Lower \cup Digit \cup {"_"}
\* characters str.strip() removes
Space ==
    { " ", "\n", "\t", "\r" }

Range(s) ==
    { s[i] : i \in DOMAIN s }

Min(a, b) ==
    IF a <= b THEN a ELSE b

\* words IGNORE_LIST holds
IGNORE_LIST ==
    { <<"C","O","D","E">>,
      <<"C","O","D","E","S">>,
      <<"R","E","D","D","I","T">>,
      <<"T","A","C","T","I","C","U","S">>,
      <<"W","A","R","H","A","M","M","E","R">>,
      <<"D","I","S","C","O","R","D">>,
      <<"L","I","N","K">>,
      <<"G","A","M","E">>,
      <<"F","R","E","E">>,
      <<"R","E","W","A","R","D">>,
      <<"A","N","D","R","O","I","D">>,
      <<"I","P","H","O","N","E">>,
      <<"M","O","B","I","L","E">>,
      <<"U","P","D","A","T","E">>,
      <<"P","A","T","C","H">>,
      <<"N","O","T","E","S">>,
      <<"H","A","V","E">>,
      <<"B","E","E","N">>,
      <<"T","H","I","S">>,
      <<"T","H","A","T">>,
      <<"W","I","T","H">>,
      <<"F","R","O","M">>,
      <<"P","O","S","T">>,
      <<"T","H","E","Y">>,
      <<"Y","O","U","R">>,
      <<"W","I","L","L">>,
      <<"J","U","S","T">>,
      <<"L","I","K","E">>,
      <<"G","O","O","D">>,
      <<"L","U","C","K">>,
      <<"G","U","Y","S">>,
      <<"T","H","A","N","K","S">>,
      <<"T","H","A","N","K">>,
      <<"Y","O","U">>,
      <<"G","U","I","L","D">>,
      <<"R","A","I","D">>,
      <<"A","R","E","N","A">>,
      <<"M","O","D","E">>,
      <<"H","E","L","P">>,
      <<"N","E","E","D">>,
      <<"W","A","N","T">>,
      <<"L","O","O","K">>,
      <<"F","I","N","D">>,
      <<"J","O","I","N">>,
      <<"T","E","A","M">>,
      <<"P","L","A","Y">>,
      <<"B","E","S","T">>,
      <<"M","E","T","A">>,
      <<"T","I","E","R">>,
      <<"L","I","S","T">>,
      <<"V","I","E","W">>,
      <<"P","O","L","L">>,
      <<"V","O","T","E">>,
      <<"M","E","M","E">>,
      <<"F","L","U","F","F">>,
      <<"N","E","W","S">>,
      <<"I","N","F","O">>,
      <<"C","H","A","T">>,
      <<"R","U","L","E">>,
      <<"M","O","D","S">>,
      <<"U","S","E","R">>,
      <<"B","O","T","S">>,
      <<"T","E","S","T">>,
      <<"H","T","T","P">>,
      <<"H","T","T","P","S">>,
      <<"C","O","M">>,
      <<"W","W","W">>,
      <<"C","O","M","M","E","N","T","S">>,
      <<"P","E","R","M","A","L","I","N","K">>,
      <<"R","E","F","E","R","R","A","L">>,
      <<"R","E","F","E","R","R","A","L","S">>,
      <<"V","I","D","E","O">>,
      <<"Y","O","U","T","U","B","E">>,
      <<"S","H","A","R","D","S">>,
      <<"G","O","L","D">>,
      <<"B","L","A","C","K","S","T","O","N","E">>,
      <<"U","P","D","A","T","E","D">>,
      <<"W","O","R","K","I","N","G">>,
      <<"I","T","E","M","S">>,
      <<"R","E","Q","U","I","S","I","T","I","O","N">>,
      <<"O","R","D","E","R","S">>,
      <<"P","L","A","Y","E","R","S">>,
      <<"N","E","W","E","S","T">>,
      <<"T","O","P">>,
      <<"A","L","L">>,
      <<"A","N","D">>,
      <<"F","O","R">>,
      <<"O","L","D">>,
      <<"N","E","W">> }

\* ------------------------------------------------------ known-codes file
\* The file is a byte string once it exists; a record is a code and "\n".
NoFile ==
    [exists |-> FALSE, data |-> <<>>]

\* str.strip(): drop leading and trailing whitespace
RECURSIVE LStrip(_)
LStrip(s) ==
    IF s # <<>> /\ Head(s) \in Space THEN LStrip(Tail(s)) ELSE s

RECURSIVE RStrip(_)
RStrip(s) ==
    IF s # <<>> /\ s[Len(s)] \in Space
    THEN RStrip(SubSeq(s, 1, Len(s) - 1))
    ELSE s

Strip(s) ==
    LStrip(RStrip(s))

\* iteration over a text file: the lines, each with its line end
RECURSIVE FileLines(_)
FileLines(data) ==
    IF data = <<>> THEN <<>>
    ELSE LET ends == { i \in DOMAIN data : data[i] = "\n" }
             cut == IF ends = {} THEN Len(data)
                    ELSE CHOOSE i \in ends : \A j \in ends : i <= j
         IN  <<SubSeq(data, 1, cut)>>
                 \o FileLines(SubSeq(data, cut + 1, Len(data)))

\* a variant that never opens the file
load_known_codes_unread(f) ==
    {}

\* a variant that keeps the line end on every record
load_known_codes_raw(f) ==
    IF ~f.exists THEN {}
    ELSE Range(FileLines(f.data))

load_known_codes(f) ==
    IF ~f.exists THEN {}
    ELSE { Strip(line) : line \in Range(FileLines(f.data)) }

\* a variant that writes the code without the closing newline
save_new_code_unterminated(f, code) ==
    [exists |-> TRUE, data |-> f.data \o code]

\* a variant that opens the file with mode "w"
save_new_code_truncating(f, code) ==
    [exists |-> TRUE, data |-> code \o <<"\n">>]

\* open(KNOWN_CODES_FILE, "a"); write(code + "\n")
save_new_code(f, code) ==
    [exists |-> TRUE, data |-> f.data \o code \o <<"\n">>]

\* ------------------------------------------------------------ extraction
\* re.sub('<[^<]+?>', ' ', text): a tag is "<", one or more characters other
\* than "<" (as few as possible), then ">"
TagEnd(text, i) ==
    LET js == { j \in (i + 2)..Len(text) :
                  /\ text[j] = ">"
                  /\ \A k \in (i + 1)..(j - 1) : text[k] # "<" }
    IN  IF text[i] = "<" /\ js # {}
        THEN CHOOSE j \in js : \A k \in js : j <= k
        ELSE 0

RECURSIVE StripTagsFrom(_, _)
StripTagsFrom(text, i) ==
    IF i > Len(text) THEN <<>>
    ELSE IF TagEnd(text, i) # 0
         THEN <<" ">> \o StripTagsFrom(text, TagEnd(text, i) + 1)
         ELSE <<text[i]>> \o StripTagsFrom(text, i + 1)

StripTags(text) ==
    StripTagsFrom(text, 1)

\* a variant of \b that takes only [A-Z0-9] for word characters
WordBoundaryOfCodeChars(text, i) ==
    LET before == i > 1 /\ text[i - 1] \in CodeChar
        after  == i <= Len(text) /\ text[i] \in CodeChar
    IN  before # after

\* \b between position i-1 and i (1-based: before character i)
WordBoundary(text, i) ==
    LET before == i > 1 /\ text[i - 1] \in WordChar
        after  == i <= Len(text) /\ text[i] \in WordChar
    IN  before # after

\* (?=[A-Z0-9]*[A-Z]): some letter follows, reached through [A-Z0-9] only
LookaheadLetter(text, i) ==
    \E j \in i..Len(text) :
        /\ text[j] \in Upper
        /\ \A k \in i..(j - 1) : text[k] \in CodeChar

\* a variant of the pattern without the closing \b
MatchLenNoClosingBoundary(text, i) ==
    LET ns == { n \in MinCodeLen..MaxCodeLen :
                  /\ i + n - 1 <= Len(text)
                  /\ \A k \in i..(i + n - 1) : text[k] \in CodeChar }
    IN  IF WordBoundary(text, i) /\ LookaheadLetter(text, i) /\ ns # {}
        THEN CHOOSE n \in ns : \A m \in ns : n >= m
        ELSE 0

\* length of the match of CODE_PATTERN that starts at i, 0 when none:
\* [A-Z0-9]{4,20} is greedy and gives characters back until \b holds
MatchLen(text, i) ==
    LET ns == { n \in MinCodeLen..MaxCodeLen :
                  /\ i + n - 1 <= Len(text)
                  /\ \A k \in i..(i + n - 1) : text[k] \in CodeChar
                  /\ WordBoundary(text, i + n) }
    IN  IF WordBoundary(text, i) /\ LookaheadLetter(text, i) /\ ns # {}
        THEN CHOOSE n \in ns : \A m \in ns : n >= m
        ELSE 0

\* CODE_PATTERN.findall(text): leftmost matches, not overlapping
RECURSIVE FindAllFrom(_, _)
FindAllFrom(text, i) ==
    IF i > Len(text) THEN <<>>
    ELSE IF MatchLen(text, i) # 0
         THEN <<SubSeq(text, i, i + MatchLen(text, i) - 1)>>
                  \o FindAllFrom(text, i + MatchLen(text, i))
         ELSE FindAllFrom(text, i + 1)

FindAll(text) ==
    FindAllFrom(text, 1)

\* ---------------------------------------------------------------- inputs
ABCD ==
    <<"A","B","C","D">>
X1Y2 ==
    <<"X","1","Y","2">>
CODE ==
    <<"C","O","D","E">>

\* A message of a source.  check_discord reads text as msg['content'] and
\* the link as msg['id']; main() reads a feed entry's title, summary,
\* published_parsed and link.  published is in days, 0 being the first run.
MsgIgnoredAndCode ==
    [hasContent |-> TRUE, hasTitle |-> TRUE, text |-> CODE \o <<" ">> \o ABCD,
     hasSummary |-> FALSE, summary |-> <<>>,
     hasDate |-> FALSE, published |-> 0, hasLink |-> TRUE]
MsgHtml ==
    [hasContent |-> TRUE, hasTitle |-> TRUE, text |-> X1Y2,
     hasSummary |-> TRUE,
     summary |-> <<"<","b",">">> \o X1Y2 \o <<"<","/","b",">">> \o ABCD,
     hasDate |-> TRUE, published |-> -3, hasLink |-> TRUE]
MsgBroken ==
    [hasContent |-> TRUE, hasTitle |-> FALSE, text |-> ABCD,
     hasSummary |-> FALSE, summary |-> <<>>,
     hasDate |-> FALSE, published |-> 0, hasLink |-> FALSE]

Msgs ==
    { MsgIgnoredAndCode, MsgHtml, MsgBroken }

\* sources in the order main() polls them: Discord, then TARGET_SUBREDDITS
Discord ==
    1
TARGET_SUBREDDITS ==
    { 2, 3 }
Sources ==
    {Discord} \cup TARGET_SUBREDDITS

SeqsUpTo(S, n) ==
    UNION { [1..k -> S] : k \in 0..n }

Feeds ==
    { f \in [Sources -> SeqsUpTo(Msgs, MaxMsgs)] :
        Len(f[1]) + Len(f[2]) + Len(f[3]) <= MaxMsgs }

\* ----------------------------------------------------------------- state
VARIABLES
    file,             \* known_codes.txt
    feeds,            \* what each source returns
    now,              \* day of the current run
    env,              \* which secrets the environment holds
    pc,               \* where main() is
    known_codes,      \* the set main() holds
    src,              \* source being polled
    messages,         \* messages / feed.entries of that source
    mi,               \* index of the message being scanned
    potential_codes,  \* findall result for that message
    ci,               \* index of the candidate being looked at
    telegram,         \* bag of codes delivered to the channel
    attempts,         \* bag: send_telegram_message calls of this run
    sendFailed,       \* codes whose send_message raised
    saveFailed,       \* codes whose save_new_code raised in this run
    clean,            \* sources this run got through without an error
    status,           \* how the last run ended
    prev,             \* how the run before the current one ended
    runs,             \* runs started
    faults,           \* failures injected so far
    parked            \* a second process that is not on the CPU, if there is one

vars ==
    <<file, feeds, now, env, pc, known_codes, src, messages, mi,
      potential_codes, ci, telegram, attempts, sendFailed, saveFailed,
      clean, status, prev, runs, faults, parked>>

\* what lies outside the running process
durable ==
    <<file, feeds, telegram, sendFailed, parked>>
memory ==
    <<known_codes, src, messages, mi, potential_codes, ci>>
history ==
    <<attempts, saveFailed, clean>>
runinfo ==
    <<now, env, status, prev, runs>>

code ==
    potential_codes[ci]

Init ==
    /\ file = NoFile
    /\ feeds \in Feeds
    /\ now = 0
    /\ env \in { [telegram |-> FALSE, discord |-> d] : d \in BOOLEAN }
    /\ ~env.discord => feeds[Discord] = <<>>
    /\ pc = "idle"
    /\ known_codes = {}
    /\ src = 0
    /\ messages = <<>>
    /\ mi = 0
    /\ potential_codes = <<>>
    /\ ci = 0
    /\ telegram = EmptyBag
    /\ attempts = EmptyBag
    /\ sendFailed = {}
    /\ saveFailed = {}
    /\ clean = {}
    /\ status = "none"
    /\ prev = "none"
    /\ runs = 0
    /\ parked = <<>>
    /\ faults = 0

\* --------------------------------------------------------------- helpers
\* a variant without the IGNORE_LIST test
IsIgnoredNever(c) ==
    FALSE

\* code in IGNORE_LIST
IsIgnored(c) ==
    c \in IGNORE_LIST

\* a variant that takes every code for new
IsKnownNever(known, c) ==
    FALSE

\* code in known_codes
IsKnown(known, c) ==
    c \in known

\* a variant that forgets known_codes.add
KnownAddSkipped(known, c) ==
    known

\* known_codes.add(code)
KnownAdd(known, c) ==
    known \cup {c}

\* a variant whose try block encloses the loop over the sources
AfterExceptOuter(s) ==
    Cardinality(Sources) + 1

\* the source main() goes on with after an except clause has run
AfterExcept(s) ==
    s + 1

\* a variant without the date test
TooOldNever(m) ==
    FALSE

\* published_dt < cutoff_time
TooOld(m) ==
    m.hasDate /\ m.published < now - LookbackDays

\* entry.title, then " " and entry.summary when there is one
ContentText(m) ==
    IF m.hasSummary THEN m.text \o <<" ">> \o m.summary ELSE m.text

\* msg.get('content', '')
DiscordContent(m) ==
    IF m.hasContent THEN m.text ELSE <<>>

ResetLoops ==
    /\ messages' = <<>>
    /\ mi' = 0
    /\ potential_codes' = <<>>
    /\ ci' = 0

\* an exception reaches the except clause of the source being polled
Raise ==
    /\ pc' = "source"
    /\ src' = AfterExcept(src)
    /\ ResetLoops

\* the process is gone: nothing of main() is left
ProcessEnds ==
    /\ pc' = "idle"
    /\ env' = [env EXCEPT !.telegram = FALSE]
    /\ clean' = {}
    /\ known_codes' = {}
    /\ src' = 0
    /\ ResetLoops

Fault ==
    /\ faults < MaxFaults
    /\ faults' = faults + 1

\* ----------------------------------------------------------- run start
BeginRun ==
    /\ pc = "idle"
    /\ runs < MaxRuns
    /\ runs' = runs + 1
    /\ prev' = status
    /\ now' = now + (IF runs = 0 THEN 0 ELSE 1)
    /\ attempts' = EmptyBag
    /\ saveFailed' = {}

\* main(): load_known_codes() returns, check_discord is called next
StartRun ==
    /\ BeginRun
    /\ known_codes' = load_known_codes(file)
    /\ pc' = "source"
    /\ src' = Discord
    /\ status' = "running"
    /\ \E t \in BOOLEAN : env' = [env EXCEPT !.telegram = t]
    /\ UNCHANGED <<durable, messages, mi, potential_codes, ci, clean,
                   faults>>

\* load_known_codes() raises (open or read fails): main() ends with it
LoadRaises ==
    /\ BeginRun
    /\ file.exists
    /\ Fault
    /\ status' = "fatal"
    /\ ProcessEnds
    /\ UNCHANGED durable

\* ------------------------------------------------------------- sources
\* check_discord returns at once without the secrets
DiscordSkipped ==
    /\ pc = "source" /\ src = Discord
    /\ ~env.discord
    /\ clean' = clean \cup {src}
    /\ src' = src + 1
    /\ UNCHANGED <<durable, runinfo, pc, known_codes, messages, mi,
                   potential_codes, ci, attempts, saveFailed, faults>>

\* requests.get answers 200 and r.json() gives at most limit=10 messages
DiscordFetch ==
    /\ pc = "source" /\ src = Discord
    /\ env.discord
    /\ messages' = SubSeq(feeds[src], 1, Min(Len(feeds[src]), DiscordLimit))
    /\ mi' = 1
    /\ pc' = "message"
    /\ UNCHANGED <<durable, runinfo, known_codes, src, potential_codes, ci,
                   attempts, saveFailed, clean, faults>>

\* a status other than 200 (return) or an exception of requests.get / r.json
DiscordError ==
    /\ pc = "source" /\ src = Discord
    /\ env.discord
    /\ Fault
    /\ Raise
    /\ UNCHANGED <<durable, runinfo, known_codes, attempts, saveFailed,
                   clean>>

\* feedparser.parse(rss_url) gives feed.entries
RedditFetch ==
    /\ pc = "source" /\ src \in TARGET_SUBREDDITS
    /\ messages' = feeds[src]
    /\ mi' = 1
    /\ pc' = "message"
    /\ UNCHANGED <<durable, runinfo, known_codes, src, potential_codes, ci,
                   attempts, saveFailed, clean, faults>>

\* feedparser.parse or feed.entries raises
RedditError ==
    /\ pc = "source" /\ src \in TARGET_SUBREDDITS
    /\ Fault
    /\ Raise
    /\ UNCHANGED <<durable, runinfo, known_codes, attempts, saveFailed,
                   clean>>

\* the loop over TARGET_SUBREDDITS is over: main() returns
EndRun ==
    /\ pc = "source" /\ src \notin Sources
    /\ status' = IF clean = Sources THEN "full" ELSE "partial"
    /\ ProcessEnds
    /\ UNCHANGED <<durable, now, prev, runs, attempts, saveFailed, faults>>

\* ------------------------------------------------------------ messages
\* no message is left: the source has been scanned to the end
SourceDone ==
    /\ pc = "message" /\ mi > Len(messages)
    /\ clean' = clean \cup {src}
    /\ pc' = "source"
    /\ src' = src + 1
    /\ ResetLoops
    /\ UNCHANGED <<durable, runinfo, known_codes, attempts, saveFailed,
                   faults>>

\* check_discord: content of the message, findall, no date test, no tag strip
DiscordMessage ==
    /\ pc = "message" /\ mi <= Len(messages)
    /\ src = Discord
    /\ potential_codes' = FindAll(DiscordContent(messages[mi]))
    /\ ci' = 1
    /\ pc' = "candidate"
    /\ UNCHANGED <<durable, runinfo, known_codes, src, messages, mi, history,
                   faults>>

\* a variant that leaves the loop at the old entry
EntryTooOldBreaks ==
    /\ pc = "message" /\ mi <= Len(messages)
    /\ src \in TARGET_SUBREDDITS
    /\ TooOld(messages[mi])
    /\ mi' = Len(messages) + 1
    /\ UNCHANGED <<durable, runinfo, pc, known_codes, src, messages,
                   potential_codes, ci, history, faults>>

\* main(): the entry is older than cutoff_time: continue
EntryTooOld ==
    /\ pc = "message" /\ mi <= Len(messages)
    /\ src \in TARGET_SUBREDDITS
    /\ TooOld(messages[mi])
    /\ mi' = mi + 1
    /\ UNCHANGED <<durable, runinfo, pc, known_codes, src, messages,
                   potential_codes, ci, history, faults>>

\* main(): entry.title raises AttributeError
EntryRaises ==
    /\ pc = "message" /\ mi <= Len(messages)
    /\ src \in TARGET_SUBREDDITS
    /\ ~TooOld(messages[mi])
    /\ ~messages[mi].hasTitle
    /\ Raise
    /\ UNCHANGED <<durable, runinfo, known_codes, history, faults>>

\* main(): title and summary, tags replaced by blanks, findall
EntryScan ==
    /\ pc = "message" /\ mi <= Len(messages)
    /\ src \in TARGET_SUBREDDITS
    /\ ~TooOld(messages[mi])
    /\ messages[mi].hasTitle
    /\ potential_codes' = FindAll(StripTags(ContentText(messages[mi])))
    /\ ci' = 1
    /\ pc' = "candidate"
    /\ UNCHANGED <<durable, runinfo, known_codes, src, messages, mi, history,
                   faults>>

\* ---------------------------------------------------------- candidates
\* no candidate is left: next message
MessageDone ==
    /\ pc = "candidate" /\ ci > Len(potential_codes)
    /\ mi' = mi + 1
    /\ potential_codes' = <<>>
    /\ ci' = 0
    /\ pc' = "message"
    /\ UNCHANGED <<durable, runinfo, known_codes, src, messages, history,
                   faults>>

\* if code in IGNORE_LIST: continue
SkipIgnored ==
    /\ pc = "candidate" /\ ci <= Len(potential_codes)
    /\ IsIgnored(code)
    /\ ci' = ci + 1
    /\ UNCHANGED <<durable, runinfo, pc, known_codes, src, messages, mi,
                   potential_codes, attempts, saveFailed, clean,
                   faults>>

\* code is in known_codes: nothing to do
SkipKnown ==
    /\ pc = "candidate" /\ ci <= Len(potential_codes)
    /\ ~IsIgnored(code)
    /\ IsKnown(known_codes, code)
    /\ ci' = ci + 1
    /\ UNCHANGED <<durable, runinfo, pc, known_codes, src, messages, mi,
                   potential_codes, history, faults>>

\* a variant that does not look the code up in known_codes
AcceptKnownToo ==
    /\ pc = "candidate" /\ ci <= Len(potential_codes)
    /\ ~IsIgnored(code)
    /\ messages[mi].hasLink
    /\ pc' = "send"
    /\ UNCHANGED <<durable, runinfo, known_codes, src, messages, mi,
                   potential_codes, ci, history, faults>>

\* code not in known_codes: the link is built, the send comes next
Accept ==
    /\ pc = "candidate" /\ ci <= Len(potential_codes)
    /\ ~IsIgnored(code)
    /\ ~IsKnown(known_codes, code)
    /\ messages[mi].hasLink
    /\ pc' = "send"
    /\ UNCHANGED <<durable, runinfo, known_codes, src, messages, mi,
                   potential_codes, ci, history, faults>>

\* code not in known_codes, but msg['id'] / entry.link raises
LinkRaises ==
    /\ pc = "candidate" /\ ci <= Len(potential_codes)
    /\ ~IsIgnored(code)
    /\ ~IsKnown(known_codes, code)
    /\ ~messages[mi].hasLink
    /\ Raise
    /\ UNCHANGED <<durable, runinfo, known_codes, history, faults>>

\* a variant that posts to the channel without the credentials
SendSkippedDelivers ==
    /\ pc = "send"
    /\ ~env.telegram
    /\ telegram' = telegram (+) SetToBag({code})
    /\ attempts' = attempts (+) SetToBag({code})
    /\ pc' = "add"
    /\ UNCHANGED <<file, feeds, parked, sendFailed, runinfo, memory, saveFailed,
                   clean, faults>>

\* send_telegram_message without credentials: prints and returns
SendSkipped ==
    /\ pc = "send"
    /\ ~env.telegram
    /\ attempts' = attempts (+) SetToBag({code})
    /\ pc' = "add"
    /\ UNCHANGED <<durable, runinfo, memory, saveFailed, clean, faults>>

\* bot.send_message delivers the code
SendOk ==
    /\ pc = "send"
    /\ env.telegram
    /\ telegram' = telegram (+) SetToBag({code})
    /\ attempts' = attempts (+) SetToBag({code})
    /\ pc' = "add"
    /\ UNCHANGED <<file, feeds, parked, sendFailed, runinfo, memory, saveFailed,
                   clean, faults>>

\* bot.send_message raises: caught and printed inside send_telegram_message
SendFails ==
    /\ pc = "send"
    /\ env.telegram
    /\ sendFailed' = sendFailed \cup {code}
    /\ attempts' = attempts (+) SetToBag({code})
    /\ pc' = "add"
    /\ UNCHANGED <<file, feeds, parked, telegram, runinfo, memory, saveFailed,
                   clean, faults>>

\* known_codes.add(code)
Add ==
    /\ pc = "add"
    /\ known_codes' = KnownAdd(known_codes, code)
    /\ pc' = "save"
    /\ UNCHANGED <<durable, runinfo, src, messages, mi, potential_codes, ci,
                   history, faults>>

\* save_new_code(code) appends the record
SaveOk ==
    /\ pc = "save"
    /\ file' = save_new_code(file, code)
    /\ ci' = ci + 1
    /\ pc' = "candidate"
    /\ UNCHANGED <<feeds, parked, telegram, sendFailed, runinfo, known_codes, src,
                   messages, mi, potential_codes, history, faults>>

\* save_new_code(code) raises (open or write fails), nothing is written
SaveRaises ==
    /\ pc = "save"
    /\ Fault
    /\ saveFailed' = saveFailed \cup {code}
    /\ Raise
    /\ UNCHANGED <<durable, runinfo, known_codes, attempts, clean>>

\* the process is killed in the middle of a run
Crash ==
    /\ pc # "idle"
    /\ Fault
    /\ status' = "crashed"
    /\ ProcessEnds
    /\ UNCHANGED <<durable, now, prev, runs, attempts, saveFailed>>

Next ==
    \/ StartRun
    \/ LoadRaises
    \/ DiscordSkipped
    \/ DiscordFetch
    \/ DiscordError
    \/ RedditFetch
    \/ RedditError
    \/ EndRun
    \/ SourceDone
    \/ DiscordMessage
    \/ EntryTooOld
    \/ EntryRaises
    \/ EntryScan
    \/ MessageDone
    \/ SkipIgnored
    \/ SkipKnown
    \/ Accept
    \/ LinkRaises
    \/ SendSkipped
    \/ SendOk
    \/ SendFails
    \/ Add
    \/ SaveOk
    \/ SaveRaises
    \/ Crash

Spec ==
    Init /\ [][Next]_vars

\* ------------------------------------------------------------ properties
\* the records of known_codes.txt, as a run that starts now would load them
FileCodes ==
    load_known_codes(file)

\* the codes send_telegram_message has been called for in this run
Attempted ==
    BagToSet(attempts)

C2_AcceptedIsKnownBeforeNext ==
    /\ pc \notin {"add", "idle"} => Attempted \subseteq known_codes
    /\ pc = "send" => code \notin Attempted

\* ABCD, accepted from Discord, comes up again as a candidate of the first
\* entry of the first subreddit
C2_Witness ==
    /\ pc = "candidate"
    /\ src = 2 /\ mi = 1
    /\ ci <= Len(potential_codes)
    /\ code = ABCD
    /\ ABCD \in Attempted
    /\ ABCD \in known_codes

\* C3: a run that starts after a run that got through every source without
\* an error, and reads the file that run left, accepts no code from the same
\* messages.
C3_SecondRunAcceptsNothing ==
    prev = "full" =>
        /\ attempts = EmptyBag
        /\ pc \notin {"send", "add", "save"}

\* the second of two full runs is over, and the first one had stored codes
C3_Witness ==
    /\ pc = "idle"
    /\ prev = "full" /\ status = "full"
    /\ Cardinality(FileCodes) = 2

\* the codes that have reached the Telegram channel
Delivered ==
    BagToSet(telegram)

\* C4 as stated: a code that has reached the channel is in the file already
\* (accept, then persist, then notify).
C4_PersistedBeforeNotified ==
    \A c \in Delivered : c \in FileCodes

\* C5 as stated: when the process has died after a code was sent, the file
\* holds that code, and so no code reaches the channel twice.
C5_CrashAfterNotifyLeavesRecord ==
    /\ status = "crashed" => \A c \in Delivered : c \in FileCodes
    /\ (status = "crashed" \/ prev = "crashed") =>
           \A c \in Delivered : CopiesIn(c, telegram) = 1

\* C6 as stated: a code whose save_new_code raised is not in known_codes and
\* has not been sent.
C6_FailedSaveLeavesNoTrace ==
    pc # "idle" =>
        \A c \in saveFailed : c \notin known_codes /\ c \notin Delivered

\* C7 as stated, for runs that are not killed: a code whose send failed is,
\* once main() is done with it, in the file (and in known_codes while the run
\* lasts), and it never reaches the channel.
C7_FailedSendStillStored ==
    (status # "crashed" /\ prev # "crashed") =>
        \A c \in sendFailed :
            /\ CopiesIn(c, telegram) = 0
            /\ \/ pc \in {"add", "save"} /\ code = c
               \/ c \in FileCodes /\ (pc # "idle" => c \in known_codes)

\* C8: while a run is on and the process is not killed, main() goes through
\* Discord, Tacticus_Codes and WarhammerTacticus one after the other, whatever
\* is raised: a step stays in the source, or moves on to the very next one, or
\* ends the run normally after the last one.  Only load_known_codes ends a run
\* with an error, before any source.
C8_SourceIsolation ==
    [][ /\ (pc # "idle" /\ status' # "crashed") =>
              \/ src' = src /\ pc' # "idle"
              \/ src \in Sources /\ src' = src + 1 /\ pc' = "source"
              \/ /\ src \notin Sources
                 /\ pc' = "idle"
                 /\ status' \in {"full", "partial"}
        /\ status' = "fatal" => pc = "idle" /\ pc' = "idle"
      ]_vars

\* Discord has failed in this run and the last subreddit is accepting a code
C8_Witness ==
    /\ env.discord
    /\ Discord \notin clean
    /\ src = 3
    /\ pc = "send"

\* C9: no word of IGNORE_LIST is ever sent, added to known_codes or written
\* to the file.
C9_IgnoredNeverAccepted ==
    /\ known_codes \cap IGNORE_LIST = {}
    /\ FileCodes \cap IGNORE_LIST = {}
    /\ Attempted \cap IGNORE_LIST = {}
    /\ Delivered \cap IGNORE_LIST = {}

\* CODE has just been passed over while known_codes was empty
C9_Witness ==
    /\ pc = "candidate"
    /\ ci > 1
    /\ potential_codes[ci - 1] = CODE
    /\ known_codes = {}

IsPrefix(s, t) ==
    Len(s) <= Len(t) /\ SubSeq(t, 1, Len(s)) = s

\* C10: no step removes a code from known_codes while a run is on, and no
\* step removes the file or changes the bytes it holds: it is appended to.
C10_StoreOnlyGrows ==
    [][ /\ (pc # "idle" /\ pc' # "idle") => known_codes \subseteq known_codes'
        /\ file.exists => file'.exists
        /\ IsPrefix(file.data, file'.data)
        /\ load_known_codes(file) \subseteq load_known_codes(file')
      ]_vars

\* a run has stored its second code
C10_Witness ==
    /\ pc = "candidate"
    /\ Cardinality(known_codes) = 2
    /\ Cardinality(FileCodes) = 2
    /\ Len(file.data) = 10

\* the message main() or check_discord is at
msg ==
    messages[mi]

\* published more than LookbackDays before the day of the run
OlderThanWindow(m) ==
    m.hasDate /\ m.published < now - LookbackDays

\* C11 as stated: in no source is a code accepted from a message that is
\* dated and older than the 3-day window.
C11_NoSourceAcceptsFromOld ==
    pc \in {"send", "add", "save"} => ~OlderThanWindow(msg)

\* C11 amended: in the two subreddit feeds no candidate of an entry older than
\* the window is looked at, let alone accepted; the only entries passed over
\* without a scan are the dated ones older than the window.  check_discord
\* has no such test.
C11_FeedAgeCutoff ==
    /\ [](src \in TARGET_SUBREDDITS /\ pc \in {"candidate", "send", "add", "save"}
            => ~OlderThanWindow(msg))
    /\ [][ (pc = "message" /\ pc' = "message" /\ src' = src /\ mi' = mi + 1)
             => OlderThanWindow(msg)
         ]_vars

\* run 2: a feed entry that is now too old has just been passed over, and the
\* code X1Y2 it holds is still unknown
C11_Witness ==
    /\ src \in TARGET_SUBREDDITS
    /\ pc = "message"
    /\ mi = 2
    /\ OlderThanWindow(messages[1])
    /\ messages[1] = MsgHtml
    /\ X1Y2 \notin known_codes
    /\ X1Y2 \notin FileCodes

\* ------------------------------------------------ extraction on its own
\* One message of any text is in front of check_discord (source 1) or of
\* main()'s feed loop (source 2); the only steps are the two that extract.
Sigma ==
    { "A", "1", "a", "_", " ", "<", ">" }

ShortTexts ==
    SeqsUpTo(Sigma, MaxTextLen)

\* n times the character c
Rep(c, n) ==
    [k \in 1..n |-> c]

\* [A-Z0-9] runs of n characters: letters, digits, a letter last, a letter first
RunsOfLen(n) ==
    { Rep("A", n), Rep("1", n),
      Rep("1", n - 1) \o <<"A">>, <<"A">> \o Rep("1", n - 1) }

Margins ==
    { <<>>, <<" ">>, <<"a">>, <<"_">> }

\* runs around the upper length limit, with and without neighbours
LongTexts ==
    { l \o r \o t : l \in Margins, t \in Margins,
                    r \in UNION { RunsOfLen(n) :
                                    n \in (MaxCodeLen - 1)..(MaxCodeLen + MaxOver) } }

Words ==
    { ABCD, X1Y2, CODE, <<"2","0","2","4">>, <<"A","B","1">> }

Separators ==
    { <<" ">>, <<"_">>, <<"a">>, <<"<","b",">">>, <<"-">> }

\* two words with something in between
PairTexts ==
    { v \o p \o w : v \in Words, p \in Separators, w \in Words }

ExtractTexts ==
    ShortTexts \cup LongTexts \cup PairTexts

TextMessage(t) ==
    [hasContent |-> TRUE, hasTitle |-> TRUE, text |-> t,
     hasSummary |-> FALSE, summary |-> <<>>,
     hasDate |-> FALSE, published |-> 0, hasLink |-> TRUE]

InitExtract ==
    /\ file = NoFile
    /\ src \in {Discord, 2}
    /\ \E t \in ExtractTexts :
          /\ messages = <<TextMessage(t)>>
          /\ feeds = [s \in Sources |-> IF s = src THEN messages ELSE <<>>]
    /\ now = 0
    /\ env = [telegram |-> TRUE, discord |-> TRUE]
    /\ pc = "message"
    /\ known_codes = {}
    /\ mi = 1
    /\ potential_codes = <<>>
    /\ ci = 0
    /\ telegram = EmptyBag
    /\ attempts = EmptyBag
    /\ sendFailed = {}
    /\ saveFailed = {}
    /\ clean = {}
    /\ status = "running"
    /\ prev = "none"
    /\ runs = 1
    /\ faults = 0
    /\ parked = <<>>

NextExtract ==
    \/ DiscordMessage
    \/ EntryScan

SpecExtract ==
    InitExtract /\ [][NextExtract]_vars

\* the text CODE_PATTERN.findall was given for the message at hand
Scanned ==
    IF src = Discord THEN DiscordContent(msg) ELSE StripTags(ContentText(msg))

Extracted ==
    pc = "candidate"

\* the maximal runs of [A-Z0-9] in a text, as <<first, last>>
MaximalRuns(t) ==
    { r \in (1..Len(t)) \X (1..Len(t)) :
        /\ r[1] <= r[2]
        /\ \A k \in r[1]..r[2] : t[k] \in CodeChar
        /\ r[1] = 1 \/ t[r[1] - 1] \notin CodeChar
        /\ r[2] = Len(t) \/ t[r[2] + 1] \notin CodeChar }

\* C12: every token findall yields has 4 to 20 characters of [A-Z0-9], one of
\* them a letter; a text that is one run with a letter is yielded whole when
\* it has 4 to 20 characters and yields nothing otherwise; and no token is the
\* head or the tail of a run of more than 20.
C12_LengthAndLetter ==
    Extracted =>
        /\ \A k \in DOMAIN potential_codes :
              LET tok == potential_codes[k]
              IN  /\ Len(tok) >= 4 /\ Len(tok) <= 20
                  /\ Range(tok) \subseteq CodeChar
                  /\ Range(tok) \cap Upper # {}
        /\ (Range(Scanned) \subseteq CodeChar /\ Range(Scanned) \cap Upper # {}) =>
              potential_codes =
                  IF Len(Scanned) >= 4 /\ Len(Scanned) <= 20
                  THEN <<Scanned>> ELSE <<>>
        /\ \A r \in MaximalRuns(Scanned) :
              r[2] - r[1] + 1 > 20 =>
                  \A k \in DOMAIN potential_codes :
                      LET n == Len(potential_codes[k])
                      IN  /\ potential_codes[k] # SubSeq(Scanned, r[1], r[1] + n - 1)
                          /\ potential_codes[k] # SubSeq(Scanned, r[2] - n + 1, r[2])
        /\ (\A r \in MaximalRuns(Scanned) : r[2] - r[1] + 1 > 20) =>
              potential_codes = <<>>

\* a run of 21 with a letter, blanks around it, has yielded nothing
C12_Witness ==
    /\ Extracted
    /\ Len(Scanned) = 23
    /\ Scanned[1] = " " /\ Scanned[23] = " "
    /\ Scanned[22] = "A"
    /\ \A k \in 2..22 : Scanned[k] \in CodeChar
    /\ potential_codes = <<>>

\* The runs of [A-Z0-9] of 4 to 20 characters with a letter, in order, that
\* have on each side an end of the text or a character outside glue.
RECURSIVE RunsDelimitedFrom(_, _, _)
RunsDelimitedFrom(t, i, glue) ==
    IF i > Len(t) THEN <<>>
    ELSE LET ends == { j \in i..Len(t) :
                         /\ j - i + 1 >= 4 /\ j - i + 1 <= 20
                         /\ \A k \in i..j : t[k] \in CodeChar
                         /\ \E k \in i..j : t[k] \in Upper
                         /\ i = 1 \/ t[i - 1] \notin glue
                         /\ j = Len(t) \/ t[j + 1] \notin glue }
         IN  IF ends = {} THEN RunsDelimitedFrom(t, i + 1, glue)
             ELSE LET j == CHOOSE j \in ends : TRUE
                  IN  <<SubSeq(t, i, j)>> \o RunsDelimitedFrom(t, j + 1, glue)

\* C13 as stated: findall yields exactly the runs that are delimited by the
\* ends of the text or by any character outside [A-Z0-9], a lowercase letter
\* and an underscore included.
C13_DelimitedByAnyOther ==
    Extracted => potential_codes = RunsDelimitedFrom(Scanned, 1, CodeChar)

\* C13 amended: findall yields exactly the runs that are delimited by the ends
\* of the text or by a character that is no word character (no letter of
\* either case, no digit, no underscore), in order, repeats included.
C13_DelimitedByNonWord ==
    Extracted => potential_codes = RunsDelimitedFrom(Scanned, 1, WordChar)

\* ABCD twice with a lowercase letter in between: neither is yielded
C13_Witness ==
    /\ Extracted
    /\ Scanned = ABCD \o <<"a">> \o ABCD
    /\ potential_codes = <<>>

\* ------------------------------------------------ the store, C14
\* C14: a file that does not exist loads as the empty set, and every write to
\* the file is a save_new_code(code) after which a fresh load_known_codes()
\* returns the codes it returned before together with code.
C14_SaveThenLoad ==
    /\ [](~file.exists => load_known_codes(file) = {})
    /\ [][ file' # file =>
             /\ pc = "save"
             /\ load_known_codes(file') = load_known_codes(file) \cup {code}
             /\ code \in load_known_codes(file')
         ]_vars

\* X1Y2 has just been saved after ABCD, and a load returns both
C14_Witness ==
    /\ pc = "candidate"
    /\ ci > 1
    /\ potential_codes[ci - 1] = X1Y2
    /\ file.data = ABCD \o <<"\n">> \o X1Y2 \o <<"\n">>
    /\ load_known_codes(file) = {ABCD, X1Y2}

\* ------------------------------------------------ two instances, C15
\* Two processes run main() against the same file, the same sources and the
\* same channel. One is on the CPU, its variables are the model's; the other
\* is parked with its own. Switch is the scheduler taking the CPU from one and
\* giving it to the other. Between two accesses to the file or the channel a
\* process touches its own variables only, so the orders in which the two
\* processes reach the file and the channel are all had by switching right
\* before such an access: load_known_codes (pc "idle", also a process that
\* has ended), send_telegram_message ("send") and save_new_code ("save").
Process ==
    [pc |-> pc, env |-> env, now |-> now, known_codes |-> known_codes,
     src |-> src, messages |-> messages, mi |-> mi,
     potential_codes |-> potential_codes, ci |-> ci, attempts |-> attempts,
     saveFailed |-> saveFailed, clean |-> clean, status |-> status,
     prev |-> prev]

Switch ==
    /\ parked # <<>>
    /\ pc \in {"idle", "send", "save"}
    /\ parked' = <<Process>>
    /\ pc' = parked[1].pc
    /\ env' = parked[1].env
    /\ now' = parked[1].now
    /\ known_codes' = parked[1].known_codes
    /\ src' = parked[1].src
    /\ messages' = parked[1].messages
    /\ mi' = parked[1].mi
    /\ potential_codes' = parked[1].potential_codes
    /\ ci' = parked[1].ci
    /\ attempts' = parked[1].attempts
    /\ saveFailed' = parked[1].saveFailed
    /\ clean' = parked[1].clean
    /\ status' = parked[1].status
    /\ prev' = parked[1].prev
    /\ UNCHANGED <<file, feeds, telegram, sendFailed, runs, faults>>

\* one process, or two that have not started yet
InitTwo ==
    /\ file = NoFile
    /\ feeds \in Feeds
    /\ now = 0
    /\ env = [telegram |-> FALSE, discord |-> TRUE]
    /\ pc = "idle"
    /\ known_codes = {}
    /\ src = 0
    /\ messages = <<>>
    /\ mi = 0
    /\ potential_codes = <<>>
    /\ ci = 0
    /\ telegram = EmptyBag
    /\ attempts = EmptyBag
    /\ sendFailed = {}
    /\ saveFailed = {}
    /\ clean = {}
    /\ status = "none"
    /\ prev = "none"
    /\ runs = 0
    /\ faults = 0
    /\ parked \in { <<>>, <<Process>> }

NextTwo ==
    \/ StartRun
    \/ DiscordFetch
    \/ RedditFetch
    \/ EndRun
    \/ SourceDone
    \/ DiscordMessage
    \/ EntryTooOld
    \/ EntryScan
    \/ MessageDone
    \/ SkipIgnored
    \/ SkipKnown
    \/ Accept
    \/ SendSkipped
    \/ SendOk
    \/ Add
    \/ SaveOk
    \/ Switch

SpecTwo ==
    InitTwo /\ [][NextTwo]_vars

\* how many records of known_codes.txt hold the code c
Records(c) ==
    LET lines == FileLines(file.data)
    IN  Cardinality({ i \in DOMAIN lines : Strip(lines[i]) = c })

Codes ==
    { ABCD, X1Y2, CODE }

\* C15: with one instance no code ever has two records in the file, and none
\* reaches the channel twice; with two instances no code has more than one
\* record for each instance that ran (the state with two is the witness).
C15_OneInstanceOneRecord ==
    \A c \in Codes :
        /\ parked = <<>> => Records(c) <= 1 /\ CopiesIn(c, telegram) <= 1
        /\ Records(c) <= runs

\* both instances have sent ABCD to the channel and each has appended it
C15_Witness ==
    /\ parked # <<>>
    /\ CopiesIn(ABCD, telegram) = 2
    /\ Records(ABCD) = 2
    /\ pc = "candidate"
    /\ parked[1].pc \in {"candidate", "message", "source", "idle"}
    /\ ABCD \in known_codes

\* ------------------------------------------------ one message fails, C16
\* C16 as stated: a failure while one message is processed skips that message
\* only, so a source is left for the next one only when none of its messages
\* is still unscanned.
C16_FailureSkipsOneMessage ==
    [][ (pc \in {"message", "candidate", "send", "add", "save"} /\ pc' = "source")
          => mi >= Len(messages)
      ]_vars

\* ------------------------------------------------ after an old entry, C17
\* C17 as stated: in the scan of a feed no entry is processed that comes after
\* an entry dated before the window.
C17_OldEntryEndsScan ==
    (src \in TARGET_SUBREDDITS /\ pc \in {"candidate", "send", "add", "save"})
        => \A k \in 1..(mi - 1) : ~OlderThanWindow(messages[k])

\* C17 amended: an entry dated before the window is passed over and the scan
\* goes on with the entry after it; an entry without a date is never passed
\* over: it is scanned, unless reading it raises or the process is killed.
C17_OldEntrySkippedScanGoesOn ==
    [][ (src \in TARGET_SUBREDDITS /\ pc = "message" /\ mi <= Len(messages)) =>
          /\ OlderThanWindow(msg) =>
                \/ pc' = "idle"
                \/ /\ pc' = "message" /\ mi' = mi + 1
                   /\ src' = src /\ messages' = messages
                   /\ known_codes' = known_codes /\ file' = file
                   /\ telegram' = telegram
          /\ ~msg.hasDate =>
                \/ pc' = "idle"
                \/ ~msg.hasTitle /\ pc' = "source"
                \/ /\ pc' = "candidate" /\ mi' = mi
                   /\ potential_codes' = FindAll(StripTags(ContentText(msg)))
      ]_vars

\* the entry after one dated before the window is being processed
C17_Witness ==
    /\ src \in TARGET_SUBREDDITS
    /\ pc = "send"
    /\ mi = 2
    /\ OlderThanWindow(messages[1])
    /\ ~messages[2].hasDate
    /\ code = ABCD

\* ------------------------------------------------ no second record, C18
\* C18: with one instance, save_new_code is never about to be called for a
\* code that the file holds already, and when a run is over, however it
\* ended, the file has as many records as it has different codes.
C18_NoDuplicateRecord ==
    /\ pc \in {"send", "add", "save"} => code \notin FileCodes
    /\ pc = "idle" => Len(FileLines(file.data)) = Cardinality(FileCodes)

\* second run: ABCD was loaded from the file and passed over, X1Y2 has been
\* appended after it
C18_Witness ==
    /\ runs = 2
    /\ pc = "candidate"
    /\ ci > 1
    /\ potential_codes[ci - 1] = X1Y2
    /\ \E k \in 1..(mi - 1) : ABCD \in Range(FindAll(messages[k].text))
    /\ ABCD \notin Attempted
    /\ file.data = ABCD \o <<"\n">> \o X1Y2 \o <<"\n">>

\* ------------------------------------------------ no credentials, C19
\* C19: without the Telegram credentials the send step changes nothing in
\* the channel and is followed by known_codes.add and by save_new_code, which
\* leaves the code in the file unless it raises or the process is killed; and
\* a code that is in the file and has not reached the channel never reaches it.
C19_SilentCodesStaySilent ==
    /\ [][ (pc = "send" /\ ~env.telegram) =>
             /\ telegram' = telegram
             /\ sendFailed' = sendFailed
             /\ pc' \in {"add", "idle"}
         ]_vars
    /\ [][ (pc = "add" /\ ~env.telegram) =>
             \/ pc' = "idle"
             \/ pc' = "save" /\ code \in known_codes'
         ]_vars
    /\ [][ (pc = "save" /\ ~env.telegram) =>
             \/ pc' = "idle"
             \/ pc' = "source" /\ code \in saveFailed' /\ code \in known_codes'
             \/ /\ pc' = "candidate"
                /\ code \in load_known_codes(file')
                /\ code \in known_codes'
         ]_vars
    /\ [][ telegram' # telegram =>
             \A c \in Codes :
                 (CopiesIn(c, telegram) = 0 /\ c \in FileCodes)
                     => CopiesIn(c, telegram') = 0
         ]_vars

\* a run with the credentials meets ABCD, which a run without them recorded:
\* it is known, and the channel has never had it
C19_Witness ==
    /\ runs = 2
    /\ env.telegram
    /\ prev = "full"
    /\ pc = "candidate" /\ ci <= Len(potential_codes)
    /\ code = ABCD
    /\ ABCD \in known_codes
    /\ ABCD \in FileCodes
    /\ CopiesIn(ABCD, telegram) = 0
    /\ sendFailed = {}

====
